---- MODULE Spec2Model ----
(***************************************************************************)
(* Model of the Table storage engine of MDB-Local (class Table of the      *)
(* static-Database prototype): the entry file format written by            *)
(* write_to_file and read back by get, id allocation from the directory    *)
(* listing, and the post / patch / delete primitives.                      *)
(*                                                                         *)
(* A JavaScript string is a sequence of symbols: one-character strings,    *)
(* and the separator "{<@SEP>}" as one symbol (it has no proper prefix     *)
(* that is also a suffix, and no value of the model holds a part of it, so *)
(* an occurrence of it never straddles two symbols).  A table directory is *)
(* a function from file name to file content.  A JavaScript object         *)
(* (TEntry) is a function from key to value.                               *)
(*                                                                         *)
(* The static class Database keeps the flag connected and the list of the  *)
(* tables loaded from the file table.info; its operations look a table up  *)
(* by name and call the operation of that Table.  Two tables are modelled: *)
(* the one of the variables fieldnames / files / parseFunction, and a      *)
(* second one with the directory other_files.  The tools make_table and    *)
(* delete_table edit table.info and the set folders of table directories.  *)
(* Two processes may use the folder of a table at once: their calls are    *)
(* modelled one file system call at a time.                                *)
(***************************************************************************)
EXTENDS Integers, Sequences, FiniteSets, TLC

VARIABLES fieldnames, files, parseFunction, last,
          connected, tables, table_info, other_files, folders, stack, callers

\* the static fields of Database, the file table.info, the directory of
\* the second table and the table directories of the database folder
database == <<connected, tables, table_info, other_files, folders>>

\* stack: the frames of the call in progress, the first called at the bottom
\* callers: for each of two processes that use the table's folder, the call
\* it is in and how far the call has got
vars == <<fieldnames, files, parseFunction, last, database, stack, callers>>

----------------------------------------------------------------------------
(* Bounds *)

\* post is not taken once the allocated id would exceed MaxId
MaxId == 2

\* a post through Database is not taken once the allocated id would exceed MaxDbId
MaxDbId == 1

----------------------------------------------------------------------------
(* JavaScript values *)

\* the number NaN (no id of the model is negative)
NaN == 0 - 1

\* the value undefined, as a field value (no string has a multi-character element)
Undefined == <<"undefined">>

\* the value null, as the result of get
Null == [null |-> <<"null">>]

\* the characters the pattern atom '.' does not match
LineTerminators == {"\n", "\r"}

Digits == <<"0", "1", "2", "3", "4", "5", "6", "7", "8", "9">>

IsDigit(c) == \E d \in 1..10 : Digits[d] = c

DigitValue(c) == (CHOOSE d \in 1..10 : Digits[d] = c) - 1

RECURSIVE NumberToString(_)
\* String(n): "NaN" or the decimal digits of n
NumberToString(n) ==
  IF n = NaN THEN <<"N", "a", "N">>
  ELSE IF n < 10 THEN <<Digits[n + 1]>>
  ELSE NumberToString(n \div 10) \o <<Digits[(n % 10) + 1]>>

RECURSIVE DigitsToNumber(_)
DigitsToNumber(s) ==
  IF Len(s) = 0 THEN 0
  ELSE 10 * DigitsToNumber(SubSeq(s, 1, Len(s) - 1)) + DigitValue(s[Len(s)])

\* Number(s) for a file name s: the whole string has to be a numeral
StringToNumber(s) ==
  IF Len(s) > 0 /\ \A i \in 1..Len(s) : IsDigit(s[i]) THEN DigitsToNumber(s) ELSE NaN

\* parseInt(s): the longest prefix of digits, NaN when there is none
parseInt(s) ==
  LET n == CHOOSE k \in 0..Len(s) :
             /\ \A i \in 1..k : IsDigit(s[i])
             /\ (k < Len(s) => ~IsDigit(s[k + 1]))
  IN  IF n = 0 THEN NaN ELSE DigitsToNumber(SubSeq(s, 1, n))

\* !value
Falsy(v) == v = Undefined \/ v = <<>>

\* data[key]
Lookup(data, key) == IF key \in DOMAIN data THEN data[key] ELSE Undefined

\* { ...a, ...b }; spreading null contributes no key
Spread(a, b) ==
  IF a = Null THEN b
  ELSE [k \in (DOMAIN a) \cup (DOMAIN b) |-> IF k \in DOMAIN b THEN b[k] ELSE a[k]]

RECURSIVE Listings(_)
\* the permutations of a finite set, as sequences: the orders readdirSync may return
Listings(S) ==
  IF S = {} THEN {<<>>}
  ELSE UNION {{<<x>> \o s : s \in Listings(S \ {x})} : x \in S}

----------------------------------------------------------------------------
(* class Table *)

ENTRY_SEP == <<"{<@SEP>}">>

\* the marker file the schema-based prototype keeps in a table directory
SchemaMarker == <<".", "s", "c", "h", "e", "m", "a">>

\* the parse function the constructor installs
IdentityParse == "identity"

\* a parse function a caller may pass to set_parse_function: it appends "!"
\* to every field (applying it twice is not applying it once)
MarkParse == "mark"

ApplyParseFunction(f, entry) ==
  CASE f = IdentityParse -> entry
    [] f = MarkParse -> [k \in DOMAIN entry |-> entry[k] \o <<"!">>]

entry_path(id) == NumberToString(id)

existsSync(fs, path) == path \in DOMAIN fs

\* the file names of the directory, in any order the file system may list them
readdirSync(fs) == Listings(DOMAIN fs)

RECURSIVE MathMax(_)
\* Math.max(...ids): every argument is converted with Number; NaN is contagious
\* (get_next_id calls it with at least one argument)
MathMax(ids) ==
  LET h == StringToNumber(Head(ids))
  IN  IF Len(ids) = 1 THEN h
      ELSE LET t == MathMax(Tail(ids))
           IN  IF h = NaN \/ t = NaN THEN NaN ELSE IF h > t THEN h ELSE t

Plus1(n) == IF n = NaN THEN NaN ELSE n + 1

\* a get_next_id that counts the files instead of taking the largest id
get_next_id_count(ids) == Len(ids) + 1

get_next_id(ids) == IF Len(ids) = 0 THEN 1 ELSE Plus1(MathMax(ids))

get_all_ids(ids) == [i \in 1..Len(ids) |-> parseInt(ids[i])]

RECURSIVE Stringify(_, _)
\* the loop of write_to_file over the remaining field names
Stringify(names, data) ==
  IF Len(names) = 0 THEN <<>>
  ELSE ENTRY_SEP \o Lookup(data, Head(names)) \o ENTRY_SEP \o <<"\n">>
         \o Stringify(Tail(names), data)

\* a write_to_file that tests each value against undefined instead of !value
write_to_file_undefined(fs, names, id, data) ==
  IF \E i \in 1..Len(names) : Lookup(data, names[i]) = Undefined
    THEN [err |-> "missing", files |-> fs]
  ELSE IF Cardinality(DOMAIN data) > Len(names)
    THEN [err |-> "toomany", files |-> fs]
  ELSE LET s == Stringify(names, data)
           path == entry_path(id)
       IN  [err |-> "none",
            files |-> [p \in (DOMAIN fs) \cup {path} |->
                         IF p = path THEN SubSeq(s, 1, Len(s) - 1) ELSE fs[p]]]

\* a write_to_file without the count of the keys
write_to_file_uncounted(fs, names, id, data) ==
  IF \E i \in 1..Len(names) : Falsy(Lookup(data, names[i]))
    THEN [err |-> "missing", files |-> fs]
  ELSE LET s == Stringify(names, data)
           path == entry_path(id)
       IN  [err |-> "none",
            files |-> [p \in (DOMAIN fs) \cup {path} |->
                         IF p = path THEN SubSeq(s, 1, Len(s) - 1) ELSE fs[p]]]

\* write_to_file: the error it throws, or "none" and the directory after the write
write_to_file(fs, names, id, data) ==
  IF \E i \in 1..Len(names) : Falsy(Lookup(data, names[i]))
    THEN [err |-> "missing", files |-> fs]
  ELSE IF Cardinality(DOMAIN data) > Len(names)
    THEN [err |-> "toomany", files |-> fs]
  ELSE LET s == Stringify(names, data)
           path == entry_path(id)
       IN  [err |-> "none",
            files |-> [p \in (DOMAIN fs) \cup {path} |->
                         IF p = path THEN SubSeq(s, 1, Len(s) - 1) ELSE fs[p]]]

StartsAt(s, i, t) ==
  /\ i + Len(t) - 1 <= Len(s)
  /\ \A k \in 1..Len(t) : s[i + k - 1] = t[k]

RECURSIVE LazySpanEnd(_, _)
\* (.*?){<@SEP>} from position j: where the closing separator starts, or 0
\* when a line terminator or the end of the string comes first
LazySpanEnd(s, j) ==
  IF j > Len(s) THEN 0
  ELSE IF StartsAt(s, j, ENTRY_SEP) THEN j
  ELSE IF s[j] \in LineTerminators THEN 0
  ELSE LazySpanEnd(s, j + 1)

RECURSIVE RegExpMatch(_, _)
\* raw_entry.match(/{<@SEP>}(.*?){<@SEP>}/g) scanning from position i:
\* the matches in order, each the lazy span between two separators on one line
RegExpMatch(s, i) ==
  IF i > Len(s) THEN <<>>
  ELSE IF StartsAt(s, i, ENTRY_SEP)
    THEN LET j == LazySpanEnd(s, i + Len(ENTRY_SEP))
         IN  IF j = 0 THEN RegExpMatch(s, i + 1)
             ELSE <<SubSeq(s, i, j + Len(ENTRY_SEP) - 1)>>
                    \o RegExpMatch(s, j + Len(ENTRY_SEP))
    ELSE RegExpMatch(s, i + 1)

\* match.substring(ENTRY_SEP.length, match.length - ENTRY_SEP.length)
StripSep(m) == SubSeq(m, Len(ENTRY_SEP) + 1, Len(m) - Len(ENTRY_SEP))

\* get: the error it throws ("TypeError" when match returns null) and the value it returns
get(fs, names, f, id) ==
  IF ~existsSync(fs, entry_path(id)) THEN [err |-> "none", ret |-> Null]
  ELSE LET matches == RegExpMatch(fs[entry_path(id)], 1)
       IN  IF Len(matches) = 0 THEN [err |-> "TypeError", ret |-> Null]
           ELSE LET record == [k \in {names[i] : i \in 1..Len(names)} |->
                                 LET i == CHOOSE n \in 1..Len(names) : names[n] = k
                                 IN  IF i <= Len(matches) THEN StripSep(matches[i])
                                     ELSE Undefined]
                IN  [err |-> "none", ret |-> ApplyParseFunction(f, record)]

\* patch: the error it throws, the directory after the call and the value it returns
patch(fs, names, f, id, updated_fields) ==
  LET current == get(fs, names, f, id)
      updated_data == Spread(current.ret, updated_fields)
      w == write_to_file(fs, names, id, updated_data)
      err == IF current.err # "none" THEN current.err
             ELSE IF ~existsSync(fs, entry_path(id)) THEN "notexist"
             ELSE w.err
  IN  [err |-> err,
       files |-> IF err = "none" THEN w.files ELSE fs,
       ret |-> IF err = "none" THEN ApplyParseFunction(f, updated_data) ELSE Null]

\* delete: the error it throws, the directory after the call and the value it returns
delete(fs, names, f, id) ==
  LET current == get(fs, names, f, id)
      err == IF current.err # "none" THEN current.err
             ELSE IF current.ret = Null THEN "notexist"
             ELSE "none"
  IN  [err |-> err,
       files |-> IF err = "none"
                 THEN [p \in (DOMAIN fs) \ {entry_path(id)} |-> fs[p]]
                 ELSE fs,
       ret |-> IF err = "none" THEN ApplyParseFunction(f, current.ret) ELSE Null]

\* get_all over the listing ids: every file name goes through parseInt and
\* get, and the parse function is applied to what get returned
get_all(fs, names, f, ids) ==
  LET g == [i \in 1..Len(ids) |-> get(fs, names, f, parseInt(ids[i]))]
  IN  IF \E i \in 1..Len(ids) : g[i].err # "none"
        THEN [err |-> "TypeError", ret |-> <<>>]
        ELSE [err |-> "none",
              ret |-> [i \in 1..Len(ids) |-> ApplyParseFunction(f, g[i].ret)]]

\* the characters of the model in the order of their code units
CodeUnits == <<"\n", "\r", ".", "0", "1", "2", "3", "4", "5", "6", "7", "8", "9",
               "A", "B", "N", "a", "c", "d", "e", "f", "h", "i", "m", "n", "s", "u",
               "{<@SEP>}">>

CharCode(c) == CHOOSE n \in 1..Len(CodeUnits) : CodeUnits[n] = c

RECURSIVE StringLess(_, _)
\* a < b on strings: the first differing code unit decides, a proper prefix is smaller
StringLess(a, b) ==
  IF Len(b) = 0 THEN FALSE
  ELSE IF Len(a) = 0 THEN TRUE
  ELSE IF Head(a) = Head(b) THEN StringLess(Tail(a), Tail(b))
  ELSE CharCode(Head(a)) < CharCode(Head(b))

includes(x, v) == \E i \in 1..(Len(x) + 1) : StartsAt(x, i, v)

startsWith(x, v) == StartsAt(x, 1, v)

endsWith(x, v) == Len(v) <= Len(x) /\ StartsAt(x, Len(x) - Len(v) + 1, v)

\* the suffixes of the names get_where*, patch_where*, delete_where*
Suffixes == {"", "_not", "_gt", "_lt", "_gte", "_lte",
             "_contains", "_not_contains", "_starts_with", "_ends_with"}

\* the comparisons that call a method of entry[fieldname]
MethodSuffixes == {"_contains", "_not_contains", "_starts_with", "_ends_with"}

\* whether evaluating the comparison throws: entry is null, or a method is
\* called on undefined
Throws(suffix, entry, fieldname) ==
  \/ entry = Null
  \/ suffix \in MethodSuffixes /\ Lookup(entry, fieldname) = Undefined

\* entry[fieldname] <op> value for a string value; undefined is in no order
\* relation with a string
Compare(suffix, x, v) ==
  CASE suffix = "" -> x = v
    [] suffix = "_not" -> x # v
    [] suffix = "_gt" -> x # Undefined /\ StringLess(v, x)
    [] suffix = "_lt" -> x # Undefined /\ StringLess(x, v)
    [] suffix = "_gte" -> x # Undefined /\ ~StringLess(x, v)
    [] suffix = "_lte" -> x # Undefined /\ ~StringLess(v, x)
    [] suffix = "_contains" -> includes(x, v)
    [] suffix = "_not_contains" -> ~includes(x, v)
    [] suffix = "_starts_with" -> startsWith(x, v)
    [] suffix = "_ends_with" -> endsWith(x, v)

\* get_where<suffix>(fieldname, value): the filter over what get_all returned
get_where(all, suffix, fieldname, value) ==
  LET Test(entry) == Compare(suffix, Lookup(entry, fieldname), value)
  IN  IF all.err # "none" THEN all
      ELSE IF \E i \in 1..Len(all.ret) : Throws(suffix, all.ret[i], fieldname)
        THEN [err |-> "TypeError", ret |-> <<>>]
      ELSE [err |-> "none", ret |-> SelectSeq(all.ret, Test)]

RECURSIVE delete_where(_, _, _, _, _, _, _)
\* delete_where<suffix>(fieldname, value): the forEach over the ids of
\* get_all_ids; the first error thrown ends the call (touched: the ids
\* delete was carried out on)
delete_where(fs, names, f, ids, suffix, fieldname, value) ==
  IF Len(ids) = 0 THEN [err |-> "none", files |-> fs, touched |-> <<>>]
  ELSE LET g == get(fs, names, f, Head(ids))
       IN  IF g.err # "none" THEN [err |-> g.err, files |-> fs, touched |-> <<>>]
           ELSE IF Throws(suffix, g.ret, fieldname)
             THEN [err |-> "TypeError", files |-> fs, touched |-> <<>>]
           ELSE IF ~Compare(suffix, Lookup(g.ret, fieldname), value)
             THEN delete_where(fs, names, f, Tail(ids), suffix, fieldname, value)
           ELSE LET d == delete(fs, names, f, Head(ids))
                IN  IF d.err # "none" THEN [err |-> d.err, files |-> fs, touched |-> <<>>]
                    ELSE LET t == delete_where(d.files, names, f, Tail(ids),
                                               suffix, fieldname, value)
                         IN  [err |-> t.err, files |-> t.files,
                              touched |-> <<Head(ids)>> \o t.touched]

RECURSIVE patch_all_rollback(_, _, _, _, _)
\* a patch_all that undoes the patches it made when a later one throws
patch_all_rollback(fs, names, f, ids, updated_fields) ==
  IF Len(ids) = 0 THEN [err |-> "none", files |-> fs, touched |-> <<>>]
  ELSE LET r == patch(fs, names, f, Head(ids), updated_fields)
       IN  IF r.err # "none" THEN [err |-> r.err, files |-> fs, touched |-> <<>>]
           ELSE LET t == patch_all_rollback(r.files, names, f, Tail(ids), updated_fields)
                IN  [err |-> t.err,
                     files |-> IF t.err # "none" THEN fs ELSE t.files,
                     touched |-> <<Head(ids)>> \o t.touched]

RECURSIVE patch_all(_, _, _, _, _)
\* patch_all(updated_fields): the map over the ids of get_all_ids
patch_all(fs, names, f, ids, updated_fields) ==
  IF Len(ids) = 0 THEN [err |-> "none", files |-> fs, touched |-> <<>>]
  ELSE LET r == patch(fs, names, f, Head(ids), updated_fields)
       IN  IF r.err # "none" THEN [err |-> r.err, files |-> fs, touched |-> <<>>]
           ELSE LET t == patch_all(r.files, names, f, Tail(ids), updated_fields)
                IN  [err |-> t.err, files |-> t.files,
                     touched |-> <<Head(ids)>> \o t.touched]

RECURSIVE patch_where(_, _, _, _, _, _, _, _)
\* patch_where<suffix>(fieldname, value, updated_fields): the forEach over
\* the ids of get_all_ids
patch_where(fs, names, f, ids, suffix, fieldname, value, updated_fields) ==
  IF Len(ids) = 0 THEN [err |-> "none", files |-> fs, touched |-> <<>>]
  ELSE LET g == get(fs, names, f, Head(ids))
       IN  IF g.err # "none" THEN [err |-> g.err, files |-> fs, touched |-> <<>>]
           ELSE IF Throws(suffix, g.ret, fieldname)
             THEN [err |-> "TypeError", files |-> fs, touched |-> <<>>]
           ELSE IF ~Compare(suffix, Lookup(g.ret, fieldname), value)
             THEN patch_where(fs, names, f, Tail(ids), suffix, fieldname, value,
                              updated_fields)
           ELSE LET r == patch(fs, names, f, Head(ids), updated_fields)
                IN  IF r.err # "none" THEN [err |-> r.err, files |-> fs, touched |-> <<>>]
                    ELSE LET t == patch_where(r.files, names, f, Tail(ids), suffix,
                                              fieldname, value, updated_fields)
                         IN  [err |-> t.err, files |-> t.files,
                              touched |-> <<Head(ids)>> \o t.touched]

\* whether a filter of the model accepts an entry
PassesFilter(filter, entry) ==
  filter.kind = "all" \/ Lookup(entry, filter.fieldname) = filter.value

\* get_all().map((entry, index) => { entry['id'] = index.toString(); return entry; })
\* for an array without null: the index counts from 0
entries_with_ids(all) ==
  [i \in 1..Len(all) |->
     [k \in (DOMAIN all[i]) \cup {"id"} |->
        IF k = "id" THEN NumberToString(i - 1) ELSE all[i][k]]]

RECURSIVE patch_each_tagged(_, _, _, _, _)
\* a patch_each that stores the id of each entry in the last field of the schema
patch_each_tagged(fs, names, f, entries, updated_fields) ==
  IF Len(entries) = 0 THEN [err |-> "none", files |-> fs]
  ELSE LET r == patch(fs, names, f, parseInt(Head(entries).id),
                      Spread(updated_fields,
                             [k \in {names[Len(names)]} |-> Head(entries).id]))
       IN  IF r.err # "none" THEN [err |-> r.err, files |-> fs]
           ELSE patch_each_tagged(r.files, names, f, Tail(entries), updated_fields)

RECURSIVE patch_each(_, _, _, _, _)
\* .map(entry => this.patch(parseInt(entry.id), updated_fields))
patch_each(fs, names, f, entries, updated_fields) ==
  IF Len(entries) = 0 THEN [err |-> "none", files |-> fs]
  ELSE LET r == patch(fs, names, f, parseInt(Head(entries).id), updated_fields)
       IN  IF r.err # "none" THEN [err |-> r.err, files |-> fs]
           ELSE patch_each(r.files, names, f, Tail(entries), updated_fields)

RECURSIVE delete_each(_, _, _, _)
\* .map(entry => this.delete(parseInt(entry.id)))
delete_each(fs, names, f, entries) ==
  IF Len(entries) = 0 THEN [err |-> "none", files |-> fs]
  ELSE LET r == delete(fs, names, f, parseInt(Head(entries).id))
       IN  IF r.err # "none" THEN [err |-> r.err, files |-> fs]
           ELSE delete_each(r.files, names, f, Tail(entries))

\* the entries patch_with_filter and delete_with_filter act on, or the
\* TypeError of get_all or of the assignment of id to null
filtered_entries(fs, names, f, ids, filter) ==
  LET all == get_all(fs, names, f, ids)
      Test(entry) == PassesFilter(filter, entry)
  IN  IF all.err # "none" THEN [err |-> all.err, ret |-> <<>>]
      ELSE IF \E i \in 1..Len(all.ret) : all.ret[i] = Null
        THEN [err |-> "TypeError", ret |-> <<>>]
      ELSE [err |-> "none", ret |-> SelectSeq(entries_with_ids(all.ret), Test)]

patch_with_filter(fs, names, f, ids, filter, updated_fields) ==
  LET e == filtered_entries(fs, names, f, ids, filter)
  IN  IF e.err # "none" THEN [err |-> e.err, files |-> fs]
      ELSE patch_each(fs, names, f, e.ret, updated_fields)

delete_with_filter(fs, names, f, ids, filter) ==
  LET e == filtered_entries(fs, names, f, ids, filter)
  IN  IF e.err # "none" THEN [err |-> e.err, files |-> fs]
      ELSE delete_each(fs, names, f, e.ret)

----------------------------------------------------------------------------
(* class Database *)

\* the names of the two tables, and a name no table has
TableName == "users"

OtherName == "posts"

UnknownName == "ghost"

OtherFieldnames == <<"name">>

\* JSON.parse of a line of table.info: a line is one symbol, the name of
\* the table it describes; line terminators around it are white space; any
\* other text is a SyntaxError
JSONparse(line, names) ==
  LET text == SelectSeq(line, LAMBDA c : c \notin LineTerminators)
  IN  IF Len(text) # 1 THEN [err |-> "SyntaxError"]
      ELSE [err |-> "none",
            name |-> text[1],
            fieldnames |-> IF text[1] = TableName THEN names ELSE OtherFieldnames]

RECURSIVE split(_, _)
\* s.split(sep) for a non-empty separator
split(s, sep) ==
  IF \E i \in 1..Len(s) : StartsAt(s, i, sep)
    THEN LET i == CHOOSE n \in 1..Len(s) :
                    StartsAt(s, n, sep) /\ \A m \in 1..(n - 1) : ~StartsAt(s, m, sep)
         IN  <<SubSeq(s, 1, i - 1)>> \o split(SubSeq(s, i + Len(sep), Len(s)), sep)
    ELSE <<s>>

\* a connect without the test of the flag connected
connect_again(isConnected, tbls, info, names) ==
  IF ~info.exists THEN [err |-> "none", connected |-> TRUE, tables |-> tbls]
  ELSE LET lines == SelectSeq(split(info.content, <<"\r", "\n">>),
                              LAMBDA line : Len(line) # 0)
           raw == [i \in 1..Len(lines) |-> JSONparse(lines[i], names)]
       IN  IF \E i \in 1..Len(lines) : raw[i].err # "none"
             THEN [err |-> "SyntaxError", connected |-> isConnected, tables |-> tbls]
             ELSE [err |-> "none", connected |-> TRUE,
                   tables |-> [i \in 1..Len(lines) |->
                                 [name |-> raw[i].name, fieldnames |-> raw[i].fieldnames]]]

\* connect: the error it throws, and the fields connected and tables after it
\* (the folder ./database/ exists: the table directories are inside it)
connect(isConnected, tbls, info, names) ==
  IF isConnected
    THEN [err |-> "alreadyconnected", connected |-> isConnected, tables |-> tbls]
  ELSE IF ~info.exists THEN [err |-> "none", connected |-> TRUE, tables |-> tbls]
  ELSE LET lines == SelectSeq(split(info.content, <<"\r", "\n">>),
                              LAMBDA line : Len(line) # 0)
           raw == [i \in 1..Len(lines) |-> JSONparse(lines[i], names)]
       IN  IF \E i \in 1..Len(lines) : raw[i].err # "none"
             THEN [err |-> "SyntaxError", connected |-> isConnected, tables |-> tbls]
             ELSE [err |-> "none", connected |-> TRUE,
                   tables |-> [i \in 1..Len(lines) |->
                                 [name |-> raw[i].name, fieldnames |-> raw[i].fieldnames]]]

\* get_table: the error it throws, or the first table of the list with the name
get_table(isConnected, tbls, tablename) ==
  IF ~isConnected THEN [err |-> "notconnected"]
  ELSE IF \A i \in 1..Len(tbls) : tbls[i].name # tablename THEN [err |-> "tablenotexist"]
  ELSE [err |-> "none",
        table |-> tbls[CHOOSE i \in 1..Len(tbls) :
                         tbls[i].name = tablename /\ \A j \in 1..(i - 1) : tbls[j].name # tablename]]

\* set_table_parse_function and Table.set_parse_function call each other
\* without end once a table of the list has the name: the call stack
\* overflows (RangeError); with no such table the loop ends and the call
\* returns.  No branch assigns the field parseFunction.
set_table_parse_function(tbls, tablename) ==
  IF \E i \in 1..Len(tbls) : tbls[i].name = tablename THEN "RangeError" ELSE "none"

\* the operation of a Table that a static operation of Database calls once
\* get_table has returned the table: the error it throws, the value it
\* returns and the table directory after it (ids is the directory listing)
TableCall(fs, names, f, ids, call) ==
  CASE call.op = "get" ->
         LET r == get(fs, names, f, call.id)
         IN  [err |-> r.err, ret |-> r.ret, files |-> fs]
    [] call.op = "post" ->
         LET w == write_to_file(fs, names, get_next_id(ids), call.data)
         IN  [err |-> w.err,
              ret |-> IF w.err = "none" THEN ApplyParseFunction(f, call.data) ELSE Null,
              files |-> w.files]
    [] call.op = "patch" -> patch(fs, names, f, call.id, call.data)
    [] call.op = "delete" -> delete(fs, names, f, call.id)
    [] call.op = "get_all" ->
         LET r == get_all(fs, names, f, ids)
         IN  [err |-> r.err, ret |-> [rows |-> r.ret], files |-> fs]
    [] call.op = "get_where" ->
         LET r == get_where(get_all(fs, names, f, ids), call.suffix, call.fieldname, call.value)
         IN  [err |-> r.err, ret |-> [rows |-> r.ret], files |-> fs]
    [] call.op = "delete_where" ->
         LET r == delete_where(fs, names, f, get_all_ids(ids), "", call.fieldname, call.value)
         IN  [err |-> r.err, ret |-> Null, files |-> r.files]
    [] call.op = "patch_with_filter" ->
         LET r == patch_with_filter(fs, names, f, ids, call.filter, call.data)
         IN  [err |-> r.err, ret |-> Null, files |-> r.files]
    [] call.op = "delete_with_filter" ->
         LET r == delete_with_filter(fs, names, f, ids, call.filter)
         IN  [err |-> r.err, ret |-> Null, files |-> r.files]

----------------------------------------------------------------------------
(* Inputs *)

Schemas == {<<"name">>, <<"name", "age">>}

\* field values callers pass to post: a plain one and one that is a line break
Values == {<<"A">>, <<"\n">>}

FullEntries(names) == [{names[i] : i \in 1..Len(names)} -> Values]

\* a value that holds the separator
SepValue == <<"A">> \o ENTRY_SEP \o <<"B">>

\* the entries passed to post: every full entry of the schema, one whose
\* values hold the separator, the empty entry, an entry with an empty value,
\* and entries with keys the schema does not have (with and without "name")
PostData(names) ==
  FullEntries(names) \cup
  { [k \in {names[i] : i \in 1..Len(names)} |-> SepValue],
    [k \in {} |-> <<>>],
    [k \in {"name", "age"} |-> IF k = "name" THEN <<>> ELSE <<"A">>],
    [k \in {"name", "age", "x"} |-> <<"A">>],
    [k \in {"age", "x", "y"} |-> <<"A">>] }

\* the partial entries passed to patch: a new name (plain, a line break,
\* empty), an age, and a key the schema does not have
PatchData ==
  { [k \in {"name"} |-> <<"B">>],
    [k \in {"name"} |-> <<"\n">>],
    [k \in {"name"} |-> <<>>],
    [k \in {"age"} |-> <<"A">>],
    [k \in {"x"} |-> <<"A">>] }

Ids == 1..MaxId

\* the names stored in the tables that are queried: two that share a prefix,
\* and a line break
QueryNames == {<<"A">>, <<"A", "B">>, <<"\n">>}

\* the entries posted to the tables that are queried: every other field is "A"
QueryEntries(names) ==
  {[k \in {names[i] : i \in 1..Len(names)} |-> IF k = "name" THEN v ELSE <<"A">>] :
     v \in QueryNames}

\* the field and the values the queries and the bulk operations compare with
QueryFields == {"name"}

QueryValues == {<<"A">>, <<"B">>}

\* the filters passed to patch_with_filter and delete_with_filter: the one
\* that accepts every entry, and entry => entry.name === "A"
Filters == {[kind |-> "all"], [kind |-> "where", fieldname |-> "name", value |-> <<"A">>]}

\* the update passed to patch_with_filter
BulkPatchData == {[k \in {"name"} |-> <<"B">>]}

RECURSIVE InfoContent(_, _)
\* the contents of table.info: each line is followed by the line end the
\* platform of make_table writes for std::endl
InfoContent(lines, eol) ==
  IF Len(lines) = 0 THEN <<>>
  ELSE <<Head(lines)>> \o eol \o InfoContent(Tail(lines), eol)

\* table.info: absent, or as make_table leaves it after creating no table,
\* one table or both tables
TableInfos ==
  {[exists |-> FALSE, content |-> <<>>]} \cup
  {[exists |-> TRUE, content |-> InfoContent(lines, eol)] :
     lines \in {<<>>, <<TableName>>, <<OtherName, TableName>>},
     eol \in {<<"\r", "\n">>, <<"\n">>}}

\* the table names passed to the static operations
TableNames == {TableName, OtherName, UnknownName}

\* the calls made through the static operations of Database
Calls ==
  { [op |-> "get", id |-> 1],
    [op |-> "post", data |-> [k \in {"name"} |-> <<"A">>]],
    [op |-> "post", data |-> [k \in {"name", "age"} |-> <<"A">>]],
    [op |-> "patch", id |-> 1, data |-> [k \in {"name"} |-> <<"B">>]],
    [op |-> "delete", id |-> 1],
    [op |-> "get_all"],
    [op |-> "get_where", suffix |-> "", fieldname |-> "name", value |-> <<"A">>],
    [op |-> "delete_where", fieldname |-> "name", value |-> <<"B">>],
    [op |-> "patch_with_filter", filter |-> [kind |-> "all"],
     data |-> [k \in {"name"} |-> <<"B">>]],
    [op |-> "delete_with_filter", filter |-> [kind |-> "all"]] }

\* the parse functions passed to set_parse_function
ParseFunctions == {MarkParse}

----------------------------------------------------------------------------
(* State machine *)

NoData == [k \in {} |-> <<>>]

\* the processes that use the folder of the table
Callers == {1, 2}

\* a process between two calls (found: the call has read its entry;
\* vanished: the file of the entry was unlinked after the call had read it;
\* wrote: the call has written a file)
Idle == [pc |-> "idle", op |-> "none", id |-> 0, data |-> NoData, err |-> "none",
         found |-> FALSE, vanished |-> FALSE, wrote |-> FALSE]

Init ==
  /\ fieldnames \in Schemas
  /\ \E marker \in BOOLEAN :
       files = [p \in (IF marker THEN {SchemaMarker} ELSE {}) |-> <<>>]
  /\ parseFunction = IdentityParse
  /\ last = [op |-> "init", id |-> 0, data |-> NoData, ret |-> Null, err |-> "none"]
  /\ connected = FALSE
  /\ tables = <<>>
  /\ table_info = [exists |-> TRUE, content |-> InfoContent(<<TableName>>, <<"\r", "\n">>)]
  /\ other_files = [p \in {} |-> <<>>]
  /\ folders = {TableName}
  /\ stack = <<>>
  /\ callers = [c \in Callers |-> Idle]

\* Table.get(id)
Get(id) ==
  LET g == get(files, fieldnames, parseFunction, id)
  IN  /\ last' = [op |-> "get", id |-> id, data |-> NoData, ret |-> g.ret, err |-> g.err]
      /\ UNCHANGED <<fieldnames, files, parseFunction, database, stack, callers>>

\* Table.post(data), for a set of entries a caller may pass
PostOf(entries) ==
  \E id \in {get_next_id(ids) : ids \in readdirSync(files)} :
    \E data \in entries :
      LET w == write_to_file(files, fieldnames, id, data)
      IN  /\ id <= MaxId
          /\ files' = w.files
          /\ last' = [op |-> "post", id |-> id, data |-> data,
                      ret |-> IF w.err = "none"
                              THEN ApplyParseFunction(parseFunction, data) ELSE Null,
                      err |-> w.err]
          /\ UNCHANGED <<fieldnames, parseFunction, database, stack, callers>>

\* Table.post(data), for every entry a caller may pass
Post == PostOf(PostData(fieldnames))

\* a patch without the existsSync test
Patch_unchecked(id, updated_fields) ==
  LET current == get(files, fieldnames, parseFunction, id)
      updated_data == Spread(current.ret, updated_fields)
      w == write_to_file(files, fieldnames, id, updated_data)
      err == IF current.err # "none" THEN current.err ELSE w.err
  IN  /\ files' = IF err = "none" THEN w.files ELSE files
      /\ last' = [op |-> "patch", id |-> id, data |-> updated_fields,
                  ret |-> IF err = "none"
                          THEN ApplyParseFunction(parseFunction, updated_data) ELSE Null,
                  err |-> err]
      /\ UNCHANGED <<fieldnames, parseFunction, database, stack, callers>>

\* Table.patch(id, updated_fields)
Patch(id, updated_fields) ==
  LET current == get(files, fieldnames, parseFunction, id)
      updated_data == Spread(current.ret, updated_fields)
      w == write_to_file(files, fieldnames, id, updated_data)
      err == IF current.err # "none" THEN current.err
             ELSE IF ~existsSync(files, entry_path(id)) THEN "notexist"
             ELSE w.err
  IN  /\ files' = IF err = "none" THEN w.files ELSE files
      /\ last' = [op |-> "patch", id |-> id, data |-> updated_fields,
                  ret |-> IF err = "none"
                          THEN ApplyParseFunction(parseFunction, updated_data) ELSE Null,
                  err |-> err]
      /\ UNCHANGED <<fieldnames, parseFunction, database, stack, callers>>

\* Table.delete(id)
Delete(id) ==
  LET current == get(files, fieldnames, parseFunction, id)
      err == IF current.err # "none" THEN current.err
             ELSE IF current.ret = Null THEN "notexist"
             ELSE "none"
  IN  /\ files' = IF err = "none"
                  THEN [p \in (DOMAIN files) \ {entry_path(id)} |-> files[p]]
                  ELSE files
      /\ last' = [op |-> "delete", id |-> id, data |-> NoData,
                  ret |-> IF err = "none"
                          THEN ApplyParseFunction(parseFunction, current.ret) ELSE Null,
                  err |-> err]
      /\ UNCHANGED <<fieldnames, parseFunction, database, stack, callers>>

Next ==
  \/ \E id \in Ids : Get(id)
  \/ Post
  \/ \E id \in Ids, p \in PatchData : Patch(id, p)
  \/ \E id \in Ids : Delete(id)

Spec == Init /\ [][Next]_vars

\* Table.post(data) with an entry of the queried tables
PostQueryEntry == PostOf(QueryEntries(fieldnames))

\* Table.get_all()
GetAll ==
  \E ids \in readdirSync(files) :
    \E r \in {get_all(files, fieldnames, parseFunction, ids)} :
      /\ last' = [op |-> "get_all", id |-> 0, data |-> NoData,
                  ret |-> [rows |-> r.ret], err |-> r.err]
      /\ UNCHANGED <<fieldnames, files, parseFunction, database, stack, callers>>

\* Table.get_where<suffix>(fieldname, value), for every comparator and the
\* fields and values a caller may pass
GetWhere ==
  \E ids \in readdirSync(files) :
    \E all \in {get_all(files, fieldnames, parseFunction, ids)} :
      \E suffix \in Suffixes, fieldname \in QueryFields, value \in QueryValues :
        \E r \in {get_where(all, suffix, fieldname, value)} :
          /\ last' = [op |-> "get_where", id |-> 0, data |-> NoData,
                      ret |-> [rows |-> r.ret], err |-> r.err,
                      suffix |-> suffix, fieldname |-> fieldname, value |-> value]
          /\ UNCHANGED <<fieldnames, files, parseFunction, database, stack, callers>>

\* Table.delete_where(fieldname, value)
DeleteWhere(fieldname, value) ==
  \E ids \in readdirSync(files) :
    \E r \in {delete_where(files, fieldnames, parseFunction, get_all_ids(ids),
                           "", fieldname, value)} :
      /\ files' = r.files
      /\ last' = [op |-> "delete_where", id |-> 0, data |-> NoData,
                  ret |-> Null, err |-> r.err,
                  fieldname |-> fieldname, value |-> value]
      /\ UNCHANGED <<fieldnames, parseFunction, database, stack, callers>>

\* Table.patch_with_filter(filter, updated_fields)
PatchWithFilter(filter, updated_fields) ==
  \E ids \in readdirSync(files) :
    \E r \in {patch_with_filter(files, fieldnames, parseFunction, ids,
                                filter, updated_fields)} :
      /\ files' = r.files
      /\ last' = [op |-> "patch_with_filter", id |-> 0, data |-> updated_fields,
                  ret |-> Null, err |-> r.err, filter |-> filter]
      /\ UNCHANGED <<fieldnames, parseFunction, database, stack, callers>>

\* Table.delete_with_filter(filter)
DeleteWithFilter(filter) ==
  \E ids \in readdirSync(files) :
    \E r \in {delete_with_filter(files, fieldnames, parseFunction, ids, filter)} :
      /\ files' = r.files
      /\ last' = [op |-> "delete_with_filter", id |-> 0, data |-> NoData,
                  ret |-> Null, err |-> r.err, filter |-> filter]
      /\ UNCHANGED <<fieldnames, parseFunction, database, stack, callers>>

\* the tables that are queried: entries are posted and deleted, and every
\* query and bulk operation is called
NextQuery ==
  \/ PostQueryEntry
  \/ \E id \in Ids : Delete(id)
  \/ GetAll
  \/ GetWhere
  \/ \E fieldname \in QueryFields, value \in QueryValues : DeleteWhere(fieldname, value)
  \/ \E filter \in Filters, updated_fields \in BulkPatchData :
       PatchWithFilter(filter, updated_fields)
  \/ \E filter \in Filters : DeleteWithFilter(filter)

SpecQuery == Init /\ [][NextQuery]_vars

\* Table.patch_all(updated_fields)
PatchAll(updated_fields) ==
  \E ids \in readdirSync(files) :
    \E r \in {patch_all(files, fieldnames, parseFunction, get_all_ids(ids),
                        updated_fields)} :
      /\ files' = r.files
      /\ last' = [op |-> "patch_all", id |-> 0, data |-> updated_fields,
                  ret |-> Null, err |-> r.err, touched |-> r.touched]
      /\ UNCHANGED <<fieldnames, parseFunction, database, stack, callers>>

\* Table.patch_where<suffix>(fieldname, value, updated_fields)
PatchWhere(suffix, fieldname, value, updated_fields) ==
  \E ids \in readdirSync(files) :
    \E r \in {patch_where(files, fieldnames, parseFunction, get_all_ids(ids),
                          suffix, fieldname, value, updated_fields)} :
      /\ files' = r.files
      /\ last' = [op |-> "patch_where", id |-> 0, data |-> updated_fields,
                  ret |-> Null, err |-> r.err, touched |-> r.touched,
                  suffix |-> suffix, fieldname |-> fieldname, value |-> value]
      /\ UNCHANGED <<fieldnames, parseFunction, database, stack, callers>>

\* Table.delete_where<suffix>(fieldname, value)
DeleteWhereSuffix(suffix, fieldname, value) ==
  \E ids \in readdirSync(files) :
    \E r \in {delete_where(files, fieldnames, parseFunction, get_all_ids(ids),
                           suffix, fieldname, value)} :
      /\ files' = r.files
      /\ last' = [op |-> "delete_where", id |-> 0, data |-> NoData,
                  ret |-> Null, err |-> r.err, touched |-> r.touched,
                  suffix |-> suffix, fieldname |-> fieldname, value |-> value]
      /\ UNCHANGED <<fieldnames, parseFunction, database, stack, callers>>

\* the value the bulk calls compare with
BulkValues == {<<"A">>}

\* the tables that bulk operations change: entries are posted, and every
\* patch_where*, delete_where* and patch_all is called
NextBulk ==
  \/ PostQueryEntry
  \/ \E updated_fields \in BulkPatchData : PatchAll(updated_fields)
  \/ \E suffix \in Suffixes, fieldname \in QueryFields, value \in BulkValues,
        updated_fields \in BulkPatchData :
       PatchWhere(suffix, fieldname, value, updated_fields)
  \/ \E suffix \in Suffixes, fieldname \in QueryFields, value \in BulkValues :
       DeleteWhereSuffix(suffix, fieldname, value)

\* the table of one field, empty
InitBulk == Init /\ fieldnames = <<"name">> /\ DOMAIN files = {}

SpecBulk == InitBulk /\ [][NextBulk]_vars

\* the database before connect, with any of the table.info files
InitDb ==
  /\ fieldnames \in Schemas
  /\ files = [p \in {} |-> <<>>]
  /\ parseFunction = IdentityParse
  /\ last = [op |-> "init", id |-> 0, data |-> NoData, ret |-> Null, err |-> "none"]
  /\ connected = FALSE
  /\ tables = <<>>
  /\ table_info \in TableInfos
  /\ other_files = [p \in {} |-> <<>>]
  /\ folders = {c \in TableNames : \E i \in 1..Len(table_info.content) :
                                     table_info.content[i] = c}
  /\ stack = <<>>
  /\ callers = [c \in Callers |-> Idle]

\* Database.connect()
Connect ==
  \E r \in {connect(connected, tables, table_info, fieldnames)} :
    /\ connected' = r.connected
    /\ tables' = r.tables
    /\ last' = [op |-> "connect", id |-> 0, data |-> NoData, ret |-> Null, err |-> r.err]
    /\ UNCHANGED <<fieldnames, files, parseFunction, table_info, other_files, folders, stack, callers>>

\* Database.get_table(tablename)
GetTable(tablename) ==
  \E t \in {get_table(connected, tables, tablename)} :
    /\ last' = [op |-> "get_table", id |-> 0, data |-> NoData,
                ret |-> IF t.err = "none" THEN t.table ELSE Null,
                err |-> t.err, static |-> TRUE, tablename |-> tablename]
    /\ UNCHANGED <<fieldnames, files, parseFunction, database, stack, callers>>

\* a static operation of Database that takes a table name: get_table, then
\* the operation of the table it returned, on that table's directory
DbCall(tablename, call) ==
  \E t \in {get_table(connected, tables, tablename)} :
    IF t.err # "none"
      THEN /\ last' = [op |-> call.op, id |-> 0, data |-> NoData, ret |-> Null,
                       err |-> t.err, static |-> TRUE, tablename |-> tablename,
                       call |-> call]
           /\ UNCHANGED <<fieldnames, files, parseFunction, database, stack, callers>>
      ELSE \E ids \in readdirSync(IF t.table.name = TableName THEN files ELSE other_files) :
             \E r \in {TableCall(IF t.table.name = TableName THEN files ELSE other_files,
                                 t.table.fieldnames,
                                 IF t.table.name = TableName THEN parseFunction
                                 ELSE IdentityParse,
                                 ids, call)} :
               /\ call.op = "post" => get_next_id(ids) <= MaxDbId
               /\ files' = IF t.table.name = TableName THEN r.files ELSE files
               /\ other_files' = IF t.table.name = TableName THEN other_files ELSE r.files
               /\ last' = [op |-> call.op, id |-> 0, data |-> NoData, ret |-> r.ret,
                           err |-> r.err, static |-> TRUE, tablename |-> tablename,
                           call |-> call]
               /\ UNCHANGED <<fieldnames, parseFunction, connected, tables, table_info, folders, stack, callers>>

\* Database.set_table_parse_function(tablename, parseFunction)
SetTableParseFunction(tablename, f) ==
  /\ last' = [op |-> "set_table_parse_function", id |-> 0, data |-> NoData, ret |-> Null,
              err |-> set_table_parse_function(tables, tablename),
              static |-> TRUE, tablename |-> tablename, f |-> f]
  /\ UNCHANGED <<fieldnames, files, parseFunction, database, stack, callers>>

\* Table.set_parse_function(parseFunction) of the table named TableName
SetParseFunction(f) ==
  /\ last' = [op |-> "set_parse_function", id |-> 0, data |-> NoData, ret |-> Null,
              err |-> set_table_parse_function(tables, TableName), f |-> f]
  /\ UNCHANGED <<fieldnames, files, parseFunction, database, stack, callers>>

\* the database: connect, the static operations, and set_parse_function
\* called on the Table named TableName itself
NextDb ==
  \/ Connect
  \/ \E tablename \in TableNames : GetTable(tablename)
  \/ \E tablename \in TableNames, call \in Calls : DbCall(tablename, call)
  \/ \E tablename \in TableNames, f \in ParseFunctions : SetTableParseFunction(tablename, f)
  \/ \E f \in ParseFunctions : SetParseFunction(f)

SpecDb == InitDb /\ [][NextDb]_vars

\* ---- set_parse_function, call by call ----

\* the number of frames at which the engine throws the RangeError "Maximum
\* call stack size exceeded"
MaxStack == 4

\* a frame of Table.set_parse_function of the table named name
TableFrame(name, f) == [fn |-> "set_parse_function", tablename |-> name, f |-> f]

\* a frame of Database.set_table_parse_function(tablename, parseFunction)
DatabaseFrame(tablename, f) ==
  [fn |-> "set_table_parse_function", tablename |-> tablename, f |-> f]

\* table.set_parse_function(f) is called on the Table that get_table gave
\* for TableName
CallSetParseFunction(f) ==
  /\ stack = <<>>
  /\ get_table(connected, tables, TableName).err = "none"
  /\ stack' = <<TableFrame(TableName, f)>>
  /\ UNCHANGED <<fieldnames, files, parseFunction, last, database, callers>>

\* Database.set_table_parse_function(tablename, f) is called
CallSetTableParseFunction(tablename, f) ==
  /\ stack = <<>>
  /\ stack' = <<DatabaseFrame(tablename, f)>>
  /\ UNCHANGED <<fieldnames, files, parseFunction, last, database, callers>>

\* the call made by the frame on top: Table.set_parse_function calls
\* Database.set_table_parse_function(this.name, parseFunction), and that one
\* calls set_parse_function of the first table with the name
Callee(frame) ==
  IF frame.fn = "set_parse_function"
    THEN DatabaseFrame(frame.tablename, frame.f)
    ELSE TableFrame(frame.tablename, frame.f)

\* whether the frame on top makes a call: set_table_parse_function does when
\* its loop finds a table with the name
Calls_(frame) ==
  \/ frame.fn = "set_parse_function"
  \/ \E i \in 1..Len(tables) : tables[i].name = frame.tablename

\* the frame on top calls: the callee's frame is pushed
StepCall ==
  /\ stack # <<>>
  /\ Calls_(stack[Len(stack)])
  /\ Len(stack) < MaxStack
  /\ stack' = Append(stack, Callee(stack[Len(stack)]))
  /\ UNCHANGED <<fieldnames, files, parseFunction, last, database, callers>>

\* the frame on top calls with no room left on the stack: the RangeError
\* thrown is caught nowhere and ends the whole call
StepOverflow ==
  /\ stack # <<>>
  /\ Calls_(stack[Len(stack)])
  /\ Len(stack) = MaxStack
  /\ stack' = <<>>
  /\ last' = [op |-> stack[1].fn, id |-> 0, data |-> NoData, ret |-> Null,
              err |-> "RangeError", tablename |-> stack[1].tablename, f |-> stack[1].f]
  /\ UNCHANGED <<fieldnames, files, parseFunction, database, callers>>

\* the frame on top returns: the loop of set_table_parse_function found no
\* table with the name (a frame that has called never gets its callee back)
StepReturn ==
  /\ stack # <<>>
  /\ ~Calls_(stack[Len(stack)])
  /\ stack' = SubSeq(stack, 1, Len(stack) - 1)
  /\ IF Len(stack) = 1
       THEN last' = [op |-> stack[1].fn, id |-> 0, data |-> NoData, ret |-> Null,
                     err |-> "none", tablename |-> stack[1].tablename, f |-> stack[1].f]
       ELSE last' = last
  /\ UNCHANGED <<fieldnames, files, parseFunction, database, callers>>

\* Database.connect() between two calls
ConnectBetweenCalls == stack = <<>> /\ Connect

\* a step of the call in progress
StepParse == StepCall \/ StepOverflow \/ StepReturn

\* connect, and the two ways of setting a parse function, run step by step
NextParse ==
  \/ ConnectBetweenCalls
  \/ \E f \in ParseFunctions : CallSetParseFunction(f)
  \/ \E tablename \in TableNames, f \in ParseFunctions :
       CallSetTableParseFunction(tablename, f)
  \/ StepParse

\* the engine runs a call that has started until it ends
SpecParse == InitDb /\ [][NextParse]_vars /\ WF_vars(StepParse)

\* ---- two processes on one table ----

\* the entry a process posts and the fields it patches: by these the writer
\* of a file is known
RaceData(c) == [k \in {"name"} |-> IF c = 1 THEN <<"A">> ELSE <<"B">>]

\* the id that patch and delete are called with
RaceIds == {1}

\* the process c ends its call with the error err
Done(c, err, wrote) ==
  [callers EXCEPT ![c].pc = "done", ![c].err = err, ![c].wrote = wrote]

\* post, line 184: get_next_id reads the directory
PostRead(c) ==
  /\ callers[c].pc = "idle"
  /\ \E id \in {get_next_id(ids) : ids \in readdirSync(files)} :
       /\ id # NaN /\ id <= MaxId
       /\ callers' = [callers EXCEPT ![c] =
            [Idle EXCEPT !.pc = "post_write", !.op = "post", !.id = id,
                         !.data = RaceData(c)]]
  /\ UNCHANGED <<fieldnames, files, parseFunction, last, database, stack>>

\* a post whose file is opened with the flag wx, which fails on a file that
\* is there
PostWrite_exclusive(c) ==
  /\ callers[c].pc = "post_write"
  /\ IF existsSync(files, entry_path(callers[c].id))
       THEN /\ files' = files
            /\ callers' = Done(c, "EEXIST", FALSE)
       ELSE \E w \in {write_to_file(files, fieldnames, callers[c].id, callers[c].data)} :
              /\ files' = w.files
              /\ callers' = Done(c, w.err, w.err = "none")
  /\ UNCHANGED <<fieldnames, parseFunction, last, database, stack>>

\* post, line 185: write_to_file writes the file of the id computed
PostWrite(c) ==
  /\ callers[c].pc = "post_write"
  /\ \E w \in {write_to_file(files, fieldnames, callers[c].id, callers[c].data)} :
       /\ files' = w.files
       /\ callers' = Done(c, w.err, w.err = "none")
  /\ UNCHANGED <<fieldnames, parseFunction, last, database, stack>>

\* patch, lines 197-198: get reads the entry, the fields are merged
PatchRead(c, id) ==
  /\ callers[c].pc = "idle"
  /\ \E g \in {get(files, fieldnames, parseFunction, id)} :
       callers' = [callers EXCEPT ![c] =
         IF g.err # "none"
           THEN [Idle EXCEPT !.pc = "done", !.op = "patch", !.id = id, !.err = g.err]
           ELSE [Idle EXCEPT !.pc = "patch_check", !.op = "patch", !.id = id,
                             !.data = Spread(g.ret, RaceData(c)),
                             !.found = (g.ret # Null)]]
  /\ UNCHANGED <<fieldnames, files, parseFunction, last, database, stack>>

\* patch, line 199: existsSync
PatchCheck(c) ==
  /\ callers[c].pc = "patch_check"
  /\ callers' = IF existsSync(files, entry_path(callers[c].id))
                  THEN [callers EXCEPT ![c].pc = "patch_write"]
                  ELSE Done(c, "notexist", FALSE)
  /\ UNCHANGED <<fieldnames, files, parseFunction, last, database, stack>>

\* patch, line 200: write_to_file writes the merged entry
PatchWrite(c) ==
  /\ callers[c].pc = "patch_write"
  /\ \E w \in {write_to_file(files, fieldnames, callers[c].id, callers[c].data)} :
       /\ files' = w.files
       /\ callers' = Done(c, w.err, w.err = "none")
  /\ UNCHANGED <<fieldnames, parseFunction, last, database, stack>>

\* delete, lines 210-211: get reads the entry
DeleteRead(c, id) ==
  /\ callers[c].pc = "idle"
  /\ \E g \in {get(files, fieldnames, parseFunction, id)} :
       callers' = [callers EXCEPT ![c] =
         IF g.err # "none" \/ g.ret = Null
           THEN [Idle EXCEPT !.pc = "done", !.op = "delete", !.id = id,
                             !.err = IF g.err # "none" THEN g.err ELSE "notexist"]
           ELSE [Idle EXCEPT !.pc = "delete_unlink", !.op = "delete", !.id = id]]
  /\ UNCHANGED <<fieldnames, files, parseFunction, last, database, stack>>

\* delete, line 212: unlinkSync removes the file, or throws ENOENT if it is
\* gone; a patch of the other process that has read the entry and not yet
\* written it has its entry vanish
DeleteUnlink(c) ==
  /\ callers[c].pc = "delete_unlink"
  /\ LET path == entry_path(callers[c].id)
         Hit(o) == /\ o # c /\ callers[o].op = "patch" /\ callers[o].id = callers[c].id
                   /\ callers[o].pc \in {"patch_check", "patch_write"}
                   /\ callers[o].found
     IN  IF existsSync(files, path)
           THEN /\ files' = [p \in (DOMAIN files) \ {path} |-> files[p]]
                /\ callers' = [o \in Callers |->
                                 IF o = c THEN Done(c, "none", FALSE)[c]
                                 ELSE IF Hit(o)
                                   THEN [callers[o] EXCEPT !.vanished = TRUE]
                                   ELSE callers[o]]
           ELSE /\ files' = files
                /\ callers' = Done(c, "ENOENT", FALSE)
  /\ UNCHANGED <<fieldnames, parseFunction, last, database, stack>>

\* the call of c has ended: its result or its error is with the caller
Return(c) ==
  /\ callers[c].pc = "done"
  /\ callers' = [callers EXCEPT ![c] = Idle]
  /\ UNCHANGED <<fieldnames, files, parseFunction, last, database, stack>>

\* the two processes, each making one call after the other, the calls
\* interleaved between any two of their file system calls
NextRace ==
  \E c \in Callers :
    \/ PostRead(c)
    \/ PostWrite(c)
    \/ \E id \in RaceIds : PatchRead(c, id)
    \/ PatchCheck(c)
    \/ PatchWrite(c)
    \/ \E id \in RaceIds : DeleteRead(c, id)
    \/ DeleteUnlink(c)
    \/ Return(c)

\* the table of one field, empty, the two processes idle
InitRace == Init /\ fieldnames = <<"name">> /\ DOMAIN files = {}

SpecRace == InitRace /\ [][NextRace]_vars

\* ---- the tools make_table and delete_table ----

\* the largest number of lines of table.info that make_table is run on
MaxLines == 2

\* what std::endl leaves in a file: "\n", or "\r\n" where the text mode of
\* the platform translates it
EndLines == {<<"\n">>, <<"\r", "\n">>}

\* the lines std::getline reads: the pieces that end with "\n", and the rest
\* if it is not empty; a text mode that writes "\r\n" reads it as "\n"
getlines(content, endl) ==
  LET p == split(content, <<"\n">>)
      q == IF p[Len(p)] = <<>> THEN SubSeq(p, 1, Len(p) - 1) ELSE p
      Translate(l) == IF endl = <<"\r", "\n">> /\ Len(l) > 0 /\ l[Len(l)] = "\r"
                        THEN SubSeq(l, 1, Len(l) - 1) ELSE l
  IN  [i \in 1..Len(q) |-> Translate(q[i])]

RECURSIVE writelines(_, _)
\* each line written with << line << std::endl
writelines(lines, endl) ==
  IF Len(lines) = 0 THEN <<>>
  ELSE Head(lines) \o endl \o writelines(Tail(lines), endl)

\* line.substr(9, line.find('"', 9) - 9): the name of the line's table
name_on_line(line) == Head(line)

\* eraseFileLine(path, eraseLine): every line but the one numbered eraseLine
\* goes to the temporary file and from there back to the file
eraseFileLine(content, eraseLine, endl) ==
  LET lines == getlines(content, endl)
      kept  == {i \in 1..Len(lines) : i # eraseLine}
      Nth(n) == CHOOSE i \in kept : Cardinality({j \in kept : j < i}) = n - 1
      temp  == writelines([n \in 1..Cardinality(kept) |-> lines[Nth(n)]], endl)
  IN  writelines(getlines(temp, endl), endl)

\* delete_table(database_filepath, table_name): the lines are counted up to
\* the first one with the name, or up to the last one if there is none; the
\* line with the number reached is erased and the directory removed
delete_table(info, dirs, table_name, endl) ==
  LET lines == getlines(info.content, endl)
      found == {i \in 1..Len(lines) :
                  /\ \A j \in 1..i : Len(lines[j]) > 0
                  /\ name_on_line(lines[i]) = table_name}
      first == CHOOSE i \in found : \A j \in found : i <= j
      line_number == IF found = {} THEN Len(lines) ELSE first
  IN  IF \E i \in 1..line_number : Len(lines[i]) = 0
        THEN [err |-> "out_of_range", info |-> info, folders |-> dirs]
        ELSE [err |-> "none",
              info |-> [exists |-> TRUE,
                        content |-> eraseFileLine(info.content, line_number, endl)],
              folders |-> dirs \ {table_name}]

\* main of make_table: the directory is created and the line of the table
\* appended to table.info
make_table(info, dirs, table_name, endl) ==
  [info |-> [exists |-> TRUE, content |-> info.content \o <<table_name>> \o endl],
   folders |-> dirs \cup {table_name}]

\* a run of make_table for table_name
MakeTable(table_name, endl) ==
  /\ Len(getlines(table_info.content, endl)) < MaxLines
  /\ \E r \in {make_table(table_info, folders, table_name, endl)} :
       /\ table_info' = r.info
       /\ folders' = r.folders
  /\ last' = [op |-> "make_table", id |-> 0, data |-> NoData, ret |-> Null,
              err |-> "none", tablename |-> table_name]
  /\ UNCHANGED <<fieldnames, files, parseFunction, connected, tables, other_files, stack, callers>>

\* a run of delete_table for table_name
DeleteTable(table_name, endl) ==
  /\ \E r \in {delete_table(table_info, folders, table_name, endl)} :
       /\ table_info' = r.info
       /\ folders' = r.folders
       /\ last' = [op |-> "delete_table", id |-> 0, data |-> NoData, ret |-> Null,
                   err |-> r.err, tablename |-> table_name]
  /\ UNCHANGED <<fieldnames, files, parseFunction, connected, tables, other_files, stack, callers>>

\* the database folder under runs of the two tools
NextTools ==
  \E table_name \in TableNames, endl \in EndLines :
    \/ MakeTable(table_name, endl)
    \/ DeleteTable(table_name, endl)

SpecTools == InitDb /\ [][NextTools]_vars

----------------------------------------------------------------------------
(* Vocabulary of the properties *)

FieldSet == {fieldnames[i] : i \in 1..Len(fieldnames)}

HoldsSeparator(v) == \E i \in 1..Len(v) : StartsAt(v, i, ENTRY_SEP)

\* E has exactly the keys of the schema, each with a non-empty value free of the separator
Conforming(E) ==
  /\ DOMAIN E = FieldSet
  /\ \A k \in DOMAIN E : E[k] # <<>> /\ ~HoldsSeparator(E[k])

\* the ids of the numerically named files of a directory
NumericIds(fs) == {StringToNumber(p) : p \in DOMAIN fs} \ {NaN}

Maximum(S) == CHOOSE m \in S : \A n \in S : n <= m

\* what the id allocator is to return for a directory
MaxPlusOne(fs) == IF NumericIds(fs) = {} THEN 1 ELSE Maximum(NumericIds(fs)) + 1

\* a schema field has no value in data: its key is absent or its value is the empty string
LacksValue(data) == \E k \in FieldSet : k \notin DOMAIN data \/ data[k] = <<>>

\* what get returns for id in the directory fs
Read(fs, id) == get(fs, fieldnames, parseFunction, id)

RECURSIVE RawFields(_)
\* the values an entry file holds, field by field: each runs from after a
\* separator to the separator that ends the line or the file
RawFields(s) ==
  IF Len(s) = 0 THEN <<>>
  ELSE LET j == CHOOSE e \in 2..Len(s) :
                  /\ StartsAt(s, e, ENTRY_SEP)
                  /\ e = Len(s) \/ (s[e + 1] = "\n" /\ StartsAt(s, e + 2, ENTRY_SEP))
                  /\ \A o \in 2..(e - 1) :
                       ~(/\ StartsAt(s, o, ENTRY_SEP)
                         /\ s[o + 1] = "\n" /\ StartsAt(s, o + 2, ENTRY_SEP))
       IN  <<SubSeq(s, 2, j - 1)>> \o RawFields(SubSeq(s, j + 2, Len(s)))

\* no value stored in the entry file of id holds the separator
SeparatorFree(fs, id) ==
  \A i \in 1..Len(RawFields(fs[entry_path(id)])) :
    ~HoldsSeparator(RawFields(fs[entry_path(id)])[i])

\* the entry the file p of the directory holds, field by field
StoredEntry(fs, p) ==
  [k \in FieldSet |-> RawFields(fs[p])[CHOOSE n \in 1..Len(fieldnames) : fieldnames[n] = k]]

\* every file of the directory is an entry file that get reads back as stored
ReadsBack(fs) ==
  \A p \in DOMAIN fs :
    /\ StringToNumber(p) # NaN
    /\ Read(fs, StringToNumber(p)) = [err |-> "none", ret |-> StoredEntry(fs, p)]

\* a comes before b in the lexicographic order of the code units
Precedes(a, b) ==
  \E n \in 0..Len(a) :
    /\ n <= Len(b)
    /\ \A i \in 1..n : a[i] = b[i]
    /\ \/ n = Len(a) /\ n < Len(b)
       \/ n < Len(a) /\ n < Len(b) /\ CharCode(a[n + 1]) < CharCode(b[n + 1])

Substring(x, v) == \E i \in 1..(Len(x) + 1) : \E j \in (i - 1)..Len(x) : SubSeq(x, i, j) = v

\* the relation each comparator query is named after, between a stored value x and v
Relation(suffix, x, v) ==
  CASE suffix = "" -> x = v
    [] suffix = "_not" -> x # v
    [] suffix = "_gt" -> Precedes(v, x)
    [] suffix = "_lt" -> Precedes(x, v)
    [] suffix = "_gte" -> x = v \/ Precedes(v, x)
    [] suffix = "_lte" -> x = v \/ Precedes(x, v)
    [] suffix = "_contains" -> Substring(x, v)
    [] suffix = "_not_contains" -> ~Substring(x, v)
    [] suffix = "_starts_with" -> Len(v) <= Len(x) /\ SubSeq(x, 1, Len(v)) = v
    [] suffix = "_ends_with" -> Len(v) <= Len(x) /\ SubSeq(x, Len(x) - Len(v) + 1, Len(x)) = v

\* the stored entries whose field relates to value, in the order of the listing ids
Matching(fs, ids, suffix, fieldname, value) ==
  LET Test(entry) == Relation(suffix, entry[fieldname], value)
  IN  SelectSeq([i \in 1..Len(ids) |-> StoredEntry(fs, ids[i])], Test)

----------------------------------------------------------------------------
(* Properties *)

\* C1: an entry with exactly the schema's keys and non-empty values free of
\* the separator (line breaks allowed) that is posted reads back, with get
\* under the identity parse function, as an equal entry.
C1_RoundTrip ==
  (last.op = "post" /\ Conforming(last.data) /\ parseFunction = IdentityParse)
    => /\ last.err = "none"
       /\ Read(files, last.id) = [err |-> "none", ret |-> last.data]

\* C2: in a directory of numerically named files, get_next_id returns the
\* largest id plus one, and 1 for the empty directory, in whatever order the
\* directory is listed.
C2_NextIdIsMaxPlusOne ==
  (\A p \in DOMAIN files : StringToNumber(p) # NaN)
    => \A ids \in readdirSync(files) : get_next_id(ids) = MaxPlusOne(files)

\* C2 witness: an entry was deleted below the largest id, so that the
\* number of files plus one is not the next id.
C2_Witness ==
  /\ last.op = "delete" /\ last.err = "none"
  /\ NumericIds(files) = {2}
  /\ \A ids \in readdirSync(files) : get_next_id(ids) = 3

\* C3: files whose name is not a decimal integer are ignored: get_next_id
\* returns the largest numeric id plus one (1 when there is none) and
\* get_all_ids returns exactly the numeric ids.
C3_MarkerIgnored ==
  \A ids \in readdirSync(files) :
    /\ get_next_id(ids) = MaxPlusOne(files)
    /\ {get_all_ids(ids)[i] : i \in 1..Len(ids)} = NumericIds(files)

\* C4: post of a conforming entry succeeds, writes the file of the allocated
\* id and nothing else, and returns the transformed entry; get of that id
\* then returns what post returned.
C4_PostThenGet ==
  [][(last'.op = "post" /\ Conforming(last'.data))
       => /\ last'.err = "none"
          /\ \A ids \in readdirSync(files) : last'.id = get_next_id(ids)
          /\ DOMAIN files' = (DOMAIN files) \cup {entry_path(last'.id)}
          /\ \A p \in (DOMAIN files) \ {entry_path(last'.id)} : files'[p] = files[p]
          /\ last'.ret = ApplyParseFunction(parseFunction, last'.data)
          /\ Read(files', last'.id) = [err |-> "none", ret |-> last'.ret]]_vars

\* C5: a post whose entry, or a patch of an existing entry whose merged
\* result, lacks a value for a schema field fails with the missing-field
\* error and leaves the directory as it was.
C5_MissingFieldNoWrite ==
  [][/\ (last'.op = "post" /\ LacksValue(last'.data))
          => last'.err = "missing" /\ files' = files
     /\ (last'.op = "patch" /\ existsSync(files, entry_path(last'.id)))
          => LET current == Read(files, last'.id)
             IN  (current.err = "none" /\ LacksValue(Spread(current.ret, last'.data)))
                   => last'.err = "missing" /\ files' = files]_vars

\* C5 witness: a patch of an existing entry with an empty value was refused.
C5_Witness ==
  /\ last.op = "patch" /\ last.err = "missing"
  /\ existsSync(files, entry_path(last.id))
  /\ \E k \in DOMAIN last.data : last.data[k] = <<>>

\* C6, as claimed: a post whose entry, or a patch of an existing entry whose
\* merged result, has more keys than the schema fails with the
\* too-many-fields error and leaves the directory as it was; a patch that
\* names a key outside the schema fails and leaves the directory as it was.
C6_TooManyFieldsError ==
  [][/\ (last'.op = "post" /\ Cardinality(DOMAIN last'.data) > Len(fieldnames))
          => last'.err = "toomany" /\ files' = files
     /\ (last'.op = "patch" /\ existsSync(files, entry_path(last'.id)))
          => LET current == Read(files, last'.id)
                 merged == Spread(current.ret, last'.data)
             IN  (current.err = "none" /\ Cardinality(DOMAIN merged) > Len(fieldnames))
                   => last'.err = "toomany" /\ files' = files
     /\ (last'.op = "patch" /\ ~(DOMAIN last'.data \subseteq FieldSet))
          => last'.err # "none" /\ files' = files]_vars

\* the error of a refused write with too many keys: the missing-field check comes first
RefusedWith(data) ==
  IF \E k \in FieldSet : Falsy(Lookup(data, k)) THEN "missing" ELSE "toomany"

\* C6, amended: such a write fails with the missing-field error when a schema
\* field has no value in the entry and with the too-many-fields error
\* otherwise, and leaves the directory as it was; a patch that names a key
\* outside the schema fails and leaves the directory as it was.
C6_TooManyFieldsRefused ==
  [][/\ (last'.op = "post" /\ Cardinality(DOMAIN last'.data) > Len(fieldnames))
          => last'.err = RefusedWith(last'.data) /\ files' = files
     /\ (last'.op = "patch" /\ existsSync(files, entry_path(last'.id)))
          => LET current == Read(files, last'.id)
                 merged == Spread(current.ret, last'.data)
             IN  (current.err = "none" /\ Cardinality(DOMAIN merged) > Len(fieldnames))
                   => last'.err = RefusedWith(merged) /\ files' = files
     /\ (last'.op = "patch" /\ ~(DOMAIN last'.data \subseteq FieldSet))
          => last'.err # "none" /\ files' = files]_vars

\* C6 witness: a patch of an existing entry that names a key outside the
\* schema was refused with the too-many-fields error.
C6_Witness ==
  /\ last.op = "patch" /\ last.err = "toomany"
  /\ existsSync(files, entry_path(last.id))
  /\ ~(DOMAIN last.data \subseteq FieldSet)

\* C7: for an id without an entry file, get returns null without an error,
\* patch and delete fail with the does-not-exist error, and the directory
\* stays as it was.
C7_AbsentId ==
  [][(last'.op \in {"get", "patch", "delete"} /\ ~existsSync(files, entry_path(last'.id)))
       => /\ files' = files
          /\ last'.op = "get" => (last'.err = "none" /\ last'.ret = Null)
          /\ last'.op \in {"patch", "delete"} => last'.err = "notexist"]_vars

\* C7 witness: a patch of an id without a file, carrying a valid value, was
\* refused while another entry exists.
C7_Witness ==
  /\ last.op = "patch" /\ last.err = "notexist"
  /\ ~existsSync(files, entry_path(last.id))
  /\ last.data = [k \in {"name"} |-> <<"B">>]
  /\ NumericIds(files) # {}

\* C8: patch of an existing entry E (its stored values free of the
\* separator) with a partial entry p over schema fields with non-empty
\* values stores, and returns, the entry with p's value for the keys of p
\* and E's value for the other fields.
C8_PatchIsShallowMerge ==
  [][(/\ last'.op = "patch"
      /\ parseFunction = IdentityParse
      /\ existsSync(files, entry_path(last'.id))
      /\ SeparatorFree(files, last'.id)
      /\ DOMAIN last'.data \subseteq FieldSet
      /\ \A k \in DOMAIN last'.data : last'.data[k] # <<>>)
       => LET current == Read(files, last'.id)
              merged == [k \in FieldSet |->
                           IF k \in DOMAIN last'.data THEN last'.data[k]
                           ELSE current.ret[k]]
          IN  current.err = "none"
                => /\ last'.err = "none"
                   /\ last'.ret = merged
                   /\ Read(files', last'.id) = [err |-> "none", ret |-> merged]]_vars

\* C9: delete of an existing id removes the entry file and returns what get
\* returned for that id just before; get of that id then returns null.
C9_DeleteReturnsEntry ==
  [][(last'.op = "delete" /\ existsSync(files, entry_path(last'.id)))
       => /\ last'.err = "none"
          /\ ~existsSync(files', entry_path(last'.id))
          /\ Read(files, last'.id) = [err |-> "none", ret |-> last'.ret]
          /\ Read(files', last'.id) = [err |-> "none", ret |-> Null]]_vars

\* C10: a successful patch of an entry whose stored values are free of the
\* separator leaves the stored value of every schema field it does not name
\* exactly as it was stored before.
C10_PatchKeepsOtherFields ==
  [][(last'.op = "patch" /\ last'.err = "none" /\ SeparatorFree(files, last'.id))
       => \A i \in 1..Len(fieldnames) :
            fieldnames[i] \notin DOMAIN last'.data
              => RawFields(files'[entry_path(last'.id)])[i]
                   = RawFields(files[entry_path(last'.id)])[i]]_vars

\* C11: in a directory of entry files, each comparator query returns
\* exactly the stored entries whose field stands in the relation (equality,
\* lexicographic order, substring, prefix, suffix) to the value.
C11_ComparatorsExact ==
  (last.op = "get_where" /\ \A p \in DOMAIN files : StringToNumber(p) # NaN)
    => /\ last.err = "none"
       /\ \E ids \in readdirSync(files) :
            last.ret.rows = Matching(files, ids, last.suffix, last.fieldname, last.value)

\* C12: delete_where(f, v) on a directory of entry files removes exactly the
\* entries whose stored field f equals v and leaves every other file as it was.
C12_DeleteWhereExact ==
  [][(last'.op = "delete_where" /\ \A p \in DOMAIN files : StringToNumber(p) # NaN)
       => /\ last'.err = "none"
          /\ DOMAIN files' =
               {p \in DOMAIN files : StoredEntry(files, p)[last'.fieldname] # last'.value}
          /\ \A p \in DOMAIN files' : files'[p] = files[p]]_vars

\* C13: on a directory of entry files that all read back as stored,
\* patch_with_filter patches and delete_with_filter deletes exactly the
\* entries that pass the filter, and leaves every other file as it was.
C13_FilterActsOnRightRows ==
  [][(last'.op \in {"patch_with_filter", "delete_with_filter"} /\ ReadsBack(files))
       => LET Passing == {p \in DOMAIN files :
                            PassesFilter(last'.filter, StoredEntry(files, p))}
          IN  /\ last'.err = "none"
              /\ \A p \in (DOMAIN files) \ Passing : p \in DOMAIN files' /\ files'[p] = files[p]
              /\ last'.op = "delete_with_filter" => DOMAIN files' = (DOMAIN files) \ Passing
              /\ last'.op = "patch_with_filter" =>
                   /\ DOMAIN files' = DOMAIN files
                   /\ \A p \in Passing :
                        files'[p] = patch(files, fieldnames, parseFunction,
                                          StringToNumber(p), last'.data).files[p]]_vars

\* C14: after patch_with_filter or delete_with_filter, for a schema without
\* a field named id, every entry file holds one value per schema field and
\* none of the values is a synthetic id (the index of an entry of get_all).
C14_SyntheticIdNotStored ==
  [][(last'.op \in {"patch_with_filter", "delete_with_filter"} /\ "id" \notin FieldSet)
       => \A p \in DOMAIN files' :
            StringToNumber(p) # NaN =>
              /\ Len(RawFields(files'[p])) = Len(fieldnames)
              /\ \A i \in 1..Len(fieldnames) :
                   RawFields(files'[p])[i] \notin
                     {NumberToString(n - 1) : n \in 1..Cardinality(DOMAIN files)}]_vars

\* C14 witness: patch_with_filter has patched an entry (the name "B" is
\* stored by no other operation) next to one it has not.
C14_Witness ==
  /\ last.op = "patch_with_filter" /\ last.err = "none"
  /\ \E p, q \in DOMAIN files :
       /\ StringToNumber(p) # NaN /\ StringToNumber(q) # NaN
       /\ StoredEntry(files, p)["name"] = <<"B">>
       /\ StoredEntry(files, q)["name"] # <<"B">>

\* C15: when set_parse_function(f) of a table returns, f is the parse
\* function the reads of that table apply from then on, and no entry file
\* has changed.
C15_ParseFunctionReplaced ==
  [][(last'.op = "set_parse_function" /\ last'.err = "none")
       => /\ parseFunction' = last'.f
          /\ files' = files]_vars

\* C16: get_all returns one element per file of the directory, each what
\* get returns for that file's id.
C16_GetAllAgreesWithGet ==
  (last.op = "get_all" /\ \A p \in DOMAIN files : Read(files, parseInt(p)).err = "none")
    => /\ last.err = "none"
       /\ \E ids \in readdirSync(files) :
            /\ Len(last.ret.rows) = Cardinality(NumericIds(files))
            /\ \A i \in 1..Len(last.ret.rows) :
                 /\ StringToNumber(ids[i]) # NaN
                 /\ last.ret.rows[i] = Read(files, StringToNumber(ids[i])).ret

\* the names of the tables loaded by connect
LoadedNames == {tables[i].name : i \in 1..Len(tables)}

\* C17: before connect has completed, every static operation that takes a
\* table name raises the not-connected error and changes neither the table
\* list nor a table directory.
C17_NotConnectedRefused ==
  [][(~connected /\ "static" \in DOMAIN last')
       => /\ last'.err = "notconnected"
          /\ tables' = tables /\ files' = files /\ other_files' = other_files]_vars

\* C18: after connect, a static operation addressed to a name that no loaded
\* table has raises the table-does-not-exist error and writes to no table
\* directory; one addressed to a loaded name is carried out by the operation
\* of the table with that name, on that table's directory only.
C18_UnknownTableRefused ==
  [][(connected /\ "static" \in DOMAIN last')
       => /\ last'.tablename \notin LoadedNames
               => /\ last'.err = "tablenotexist"
                  /\ files' = files /\ other_files' = other_files
          /\ (last'.tablename \in LoadedNames /\ "call" \in DOMAIN last')
               => LET t == get_table(connected, tables, last'.tablename).table
                      own == last'.tablename = TableName
                      dir == IF own THEN files ELSE other_files
                  IN  /\ t.name = last'.tablename
                      /\ IF own THEN other_files' = other_files ELSE files' = files
                      /\ \E ids \in readdirSync(dir) :
                           \E r \in {TableCall(dir, t.fieldnames,
                                               IF own THEN parseFunction ELSE IdentityParse,
                                               ids, last'.call)} :
                             /\ last'.err = r.err /\ last'.ret = r.ret
                             /\ r.files = IF own THEN files' ELSE other_files']_vars

\* C19: connect on a connected database raises "Database already connected"
\* and leaves the flag true and the table list as it was; the flag never
\* returns to false.
C19_ConnectOnce ==
  [][/\ connected => connected'
     /\ (connected /\ last'.op = "connect")
          => /\ last'.err = "alreadyconnected"
             /\ tables' = tables]_vars

\* C19 witness: a second connect was refused on a database that has loaded
\* both tables.
C19_Witness ==
  /\ last.op = "connect" /\ last.err = "alreadyconnected"
  /\ connected /\ Len(tables) = 2

\* C20: get of an entry file whose number of separator-delimited spans is
\* not the number of schema fields (none at all included) fails with an
\* error instead of returning an entry.
C20_CorruptEntryRejected ==
  (/\ last.op = "get"
   /\ existsSync(files, entry_path(last.id))
   /\ Len(RegExpMatch(files[entry_path(last.id)], 1)) # Len(fieldnames))
    => last.err # "none"

\* C23: with one caller at a time, on a directory whose file names are all
\* numeric ids, post writes under an id no entry had when the call started,
\* and every entry that was present keeps its content.
C23_PostNeverOverwrites ==
  [][(last'.op = "post" /\ \A p \in DOMAIN files : StringToNumber(p) # NaN)
       => /\ entry_path(last'.id) \notin DOMAIN files
          /\ \A p \in DOMAIN files : p \in DOMAIN files' /\ files'[p] = files[p]]_vars

\* C23 witness: a post has written entry 2 next to entry 1.
C23_Witness ==
  /\ last.op = "post" /\ last.err = "none" /\ last.id = 2
  /\ DOMAIN files = {entry_path(1), entry_path(2)}

\* C28: a post that follows the deletion of an entry is assigned an id
\* greater than the id of the deleted entry (which an earlier post had
\* assigned): ids are not reused.
C28_IdsNeverReused ==
  [][(/\ last.op = "delete" /\ last.err = "none"
      /\ last'.op = "post" /\ last'.err = "none"
      /\ \A p \in DOMAIN files : StringToNumber(p) # NaN)
       => last'.id > last.id]_vars

\* C29: in a table that started empty, every entry file decodes to exactly
\* the schema's field names, each with a non-empty value, and holds as many
\* separator-delimited spans as the schema has fields.
C29_StoredEntriesWellFormed ==
  (\A p \in DOMAIN files : StringToNumber(p) # NaN)
    => \A p \in DOMAIN files :
         LET r == Read(files, StringToNumber(p))
         IN  /\ r.err = "none"
             /\ DOMAIN r.ret = FieldSet
             /\ \A k \in FieldSet : ~Falsy(r.ret[k])
             /\ Len(RegExpMatch(files[p], 1)) = Len(fieldnames)

\* the ids of the entries get_where<suffix>(fieldname, value) returns on the
\* files fs listed as ids: none when the call throws
ReturnedIds(fs, ids, suffix, fieldname, value) ==
  LET all == get_all(fs, fieldnames, parseFunction, ids)
      w   == get_where(all, suffix, fieldname, value)
  IN  IF w.err # "none" THEN {}
      ELSE {parseInt(ids[i]) :
              i \in {j \in 1..Len(ids) :
                       Compare(suffix, Lookup(all.ret[j], fieldname), value)}}

\* the ids a bulk call was carried out on
Touched(l) == {l.touched[i] : i \in 1..Len(l.touched)}

\* C24: the ids patch_where<op> patches, and the ids delete_where<op>
\* removes, are the ids of the entries get_where<op> returns for the same
\* field and value on the table as it was before the call.
C24_BulkSelectsAsGetWhere ==
  [][last'.op \in {"patch_where", "delete_where"}
       => \E ids \in readdirSync(files) :
            Touched(last') =
              ReturnedIds(files, ids, last'.suffix, last'.fieldname, last'.value)]_vars

\* the bulk call recorded in l, made on the files fs for the ids given
BulkCall(fs, ids, l) ==
  CASE l.op = "patch_all" ->
         patch_all(fs, fieldnames, parseFunction, ids, l.data)
    [] l.op = "patch_where" ->
         patch_where(fs, fieldnames, parseFunction, ids, l.suffix, l.fieldname,
                     l.value, l.data)
    [] l.op = "delete_where" ->
         delete_where(fs, fieldnames, parseFunction, ids, l.suffix, l.fieldname,
                      l.value)

\* C30: a bulk call that fails stops at the first row that fails: the error
\* of that row is the error of the call, the rows before it that the call
\* acted on stay patched or deleted, and the failing row and the rows after
\* it are as they were.
C30_BulkAbortsAtFirstFailure ==
  [][(last'.op \in {"patch_all", "patch_where", "delete_where"} /\ last'.err # "none")
       => \E ids \in readdirSync(files) :
            \E k \in 1..Len(ids), n \in {get_all_ids(ids)} :
              \E pre \in {BulkCall(files, SubSeq(n, 1, k - 1), last')} :
                  /\ pre.err = "none"
                  /\ files' = pre.files
                  /\ last'.touched = pre.touched
                  /\ BulkCall(pre.files, <<n[k]>>, last').err = last'.err
                  /\ \A i \in 1..(k - 1) :
                       n[i] \in Touched(last')
                         => IF last'.op = "delete_where"
                              THEN ids[i] \notin DOMAIN files'
                              ELSE /\ ids[i] \in DOMAIN files'
                                   /\ \A f \in DOMAIN last'.data :
                                        Lookup(Read(files', n[i]).ret, f) = last'.data[f]
                  /\ \A j \in k..Len(ids) :
                       /\ ids[j] \in DOMAIN files'
                       /\ files'[ids[j]] = files[ids[j]]]_vars

\* C30 witness: a patch_all has failed after it patched a row.
C30_Witness ==
  /\ last.op = "patch_all" /\ last.err # "none"
  /\ Len(last.touched) >= 1

\* the table names on the lines of table.info, in the order of the lines
LineNames(content) ==
  LET IsName(c) == c \notin LineTerminators
  IN  SelectSeq(content, IsName)

\* C26: no two lines of table.info carry the same table name, whatever runs
\* of make_table and delete_table came before.
C26_ManifestNamesUnique ==
  LET n == LineNames(table_info.content)
  IN  \A i, j \in 1..Len(n) : i # j => n[i] # n[j]

\* C27: delete_table removes the line of the named table and the table's
\* directory and nothing else; when no line has the name, the lines of
\* table.info stay as they are.
C27_DeleteTableOnlyNamed ==
  [][(last'.op = "delete_table" /\ last'.err = "none")
       => LET n     == LineNames(table_info.content)
              named == {i \in 1..Len(n) : n[i] = last'.tablename}
              k     == CHOOSE i \in named : \A j \in named : i <= j
          IN  IF named = {}
                THEN LineNames(table_info'.content) = n
                ELSE /\ LineNames(table_info'.content) =
                          SubSeq(n, 1, k - 1) \o SubSeq(n, k + 1, Len(n))
                     /\ folders' = folders \ {last'.tablename}]_vars

\* a call to set the parse function of a loaded table is in progress
ParseCallRunning ==
  /\ stack # <<>>
  /\ \E i \in 1..Len(tables) : tables[i].name = stack[1].tablename

\* the last call to set a parse function has returned to its caller
ParseCallReturned ==
  /\ stack = <<>>
  /\ last.op \in {"set_parse_function", "set_table_parse_function"}
  /\ last.err = "none"

\* C25: a call of set_parse_function on a table of the connected Database,
\* or of set_table_parse_function for the name of a loaded table, returns
\* to its caller.
C25_SetParseFunctionReturns == ParseCallRunning ~> ParseCallReturned

\* C21: when a post writes the file of an id that a post of the other
\* process, which computed the same id, has written meanwhile, the write
\* replaces that entry: no caller has an error, and the table has one new
\* entry where two were posted.
C21_RacingPostsShareAnId ==
  [][\A c, o \in Callers :
       (/\ c # o
        /\ callers[c].pc = "post_write" /\ callers'[c].pc = "done"
        /\ callers[o].op = "post" /\ callers[o].pc = "done"
        /\ callers[o].id = callers[c].id /\ callers[o].wrote
        /\ existsSync(files, entry_path(callers[c].id)))
         => /\ callers'[c].err = "none" /\ callers[o].err = "none"
            /\ DOMAIN files' = DOMAIN files
            /\ StoredEntry(files', entry_path(callers[c].id)) = RaceData(c)
            /\ \A p \in DOMAIN files :
                 p # entry_path(callers[c].id) => files'[p] = files[p]]_vars

\* C21 witness: both processes have posted under id 1 without an error and
\* the table holds the one entry of the second writer.
C21_Witness ==
  /\ \A c \in Callers :
       /\ callers[c].op = "post" /\ callers[c].pc = "done"
       /\ callers[c].id = 1 /\ callers[c].err = "none" /\ callers[c].wrote
  /\ DOMAIN files = {entry_path(1)}

\* C22: a patch whose entry was unlinked by a delete after the patch had
\* read it and before the patch wrote ends with the error of a missing
\* entry and writes nothing, so the file stays absent.
C22_PatchNeverRecreates ==
  \A c \in Callers :
    (callers[c].op = "patch" /\ callers[c].pc = "done" /\ callers[c].vanished)
      => callers[c].err = "notexist" /\ ~callers[c].wrote









====
